---- MODULE Spec2Model ----
(***************************************************************************)
(* Model of the Notion assistant: the answer generator with its provider    *)
(* fallback (rag_agent/answer.py, llm_providers.py), embed_batch and the    *)
(* rate limiting of the embedding providers (embedding_providers.py), the   *)
(* chunker (indexing/embed.py), the similarity index (rag_agent/answer.py), *)
(* the embedding store and the indexing run that rewrites it                *)
(* (indexing/embed.py), the selection of an embedding provider              *)
(* (embedding_providers.py), the user-facing session (app.py) and the       *)
(* paginated fetch with retries (notion_fetcher/fetch.py).                  *)
(*                                                                         *)
(* Each component has its own specification (SpecGen, SpecBatch,           *)
(* SpecChunk, SpecRetrieve, SpecStore, SpecProv, SpecSess, SpecFetch); the  *)
(* variables of the other components rest at their idle values.             *)
(*                                                                         *)
(* Python strings that the code inspects with startswith are sequences of   *)
(* tokens; texts handed to the chunker are sequences of character codes;    *)
(* the contents of the store file are a sequence of JSON tokens.            *)
(***************************************************************************)
EXTENDS Integers, Sequences, FiniteSets, TLC

VARIABLES
    \* ---- generate_answer (rag_agent/answer.py:43-67)
    gpc,            \* position inside generate_answer
    pref,           \* model_preference
    ctx,            \* context_chunks (list of chunk dicts)
    openaiKey,      \* OPENAI_API_KEY is set
    groqKey,        \* GROQ_API_KEY is set
    pkgAvail,       \* OPENAI_AVAILABLE (the openai package imported)
    presult,        \* per provider: the value its generate_answer returned (`result` at line 50, the returned value at line 63)
    calls,          \* log of provider calls: generate_answer entries and remote chat calls
    gresult,        \* value returned by generate_answer
    \* ---- embed_batch (embedding_providers.py:67-76, 103-110)
    bpc,            \* position inside embed_batch
    bprovider,      \* "openai" or "local"
    texts,          \* the input list of texts
    bidx,           \* loop index of OpenAIEmbeddingProvider.embed_batch
    failed,         \* set of positions whose individual embedding failed
    bresult,        \* the list embed_batch builds and returns
    clock,          \* milliseconds the provider has spent in time.sleep so far
    callTimes,      \* the value of clock at each call of embeddings.create
    \* ---- chunk_text (indexing/embed.py:11-34)
    cpc,            \* position inside chunk_text
    text,           \* the input text
    max_length,
    overlap,
    start,          \* loop variable `start`
    chunks,         \* the list `chunks`
    spans,          \* per appended chunk: `start`, `end` before and after boundary snapping, and the index range sliced
    \* ---- retrieve_top_chunks (rag_agent/answer.py:17-28)
    rpc,            \* position inside retrieve_top_chunks
    query_embedding,
    embeddings,     \* the record list
    top_k,
    scores,         \* the list `scores` of (similarity, record) pairs
    rresult,        \* the returned list
    \* ---- the embedding store and one indexing run (indexing/embed.py:47-60, 119-155; rag_agent/answer.py:69-87)
    ipc,            \* position inside indexing main
    file,           \* embeddings.json: whether it exists, and its contents as JSON tokens
    prevStore,      \* the file as it was when the current indexing run started
    work,           \* chunks of the fetched pages still to embed
    newEmbeddings,  \* the list `embeddings` that main builds
    runs,           \* number of indexing runs started
    lastLoad,       \* the last load_embeddings call: which function, when, what it saw, its outcome
    \* ---- get_embedding_provider (embedding_providers.py:116-162) and its caller in indexing main (indexing/embed.py:103-110)
    ppc,            \* position inside get_embedding_provider
    provider_type,
    apiKey,         \* os.getenv("OPENAI_API_KEY") is non-empty
    OPENAI_AVAILABLE,
    SENTENCE_TRANSFORMERS_AVAILABLE,
    plog,           \* constructions and probes made during the call, in order
    embedding_provider, \* the value get_embedding_provider returned
    mainAfter,      \* what indexing main does with that value
    \* ---- the user-facing session (app.py:46-110, 136-192)
    spc,            \* where the session is: a prompt, an operation in progress, or over
    endCause,       \* why the menu loop was left
    message,        \* the kind of message printed last
    lastError,      \* the last exception raised inside a try block: the operation, the exception, and where the handler led
    stdinEOF,       \* standard input has reached its end
    inputParity,     \* the number of input() calls made so far, modulo 2
    \* ---- fetch_blocks and fetch_database_pages (notion_fetcher/fetch.py:11-41, 88-120)
    fpc,            \* position inside the function
    fwhich,         \* which of the two functions is running
    totalPages,     \* number of pages the listing has on the Notion side
    cursor,         \* `cursor`: 0 for None, otherwise the page next_cursor points to
    attempt,        \* loop variable `attempt`
    results,        \* the list `results` (`pages` in fetch_database_pages)
    flog,           \* API calls and sleeps, in order
    freturn,        \* what the function returned
    gaveUp          \* the function returned from the except clause

genVars == <<gpc, pref, ctx, openaiKey, groqKey, pkgAvail, presult, calls, gresult>>
batchVars == <<bpc, bprovider, texts, bidx, failed, bresult, clock, callTimes>>
chunkVars == <<cpc, text, max_length, overlap, start, chunks, spans>>
retrVars == <<rpc, query_embedding, embeddings, top_k, scores, rresult>>
storeVars == <<ipc, file, prevStore, work, newEmbeddings, runs, lastLoad>>
provVars == <<ppc, provider_type, apiKey, OPENAI_AVAILABLE, SENTENCE_TRANSFORMERS_AVAILABLE, plog, embedding_provider, mainAfter>>
sessVars == <<spc, endCause, message, lastError, stdinEOF, inputParity>>
fetchVars == <<fpc, fwhich, totalPages, cursor, attempt, results, flog, freturn, gaveUp>>
vars == <<genVars, batchVars, chunkVars, retrVars, storeVars, provVars, sessVars, fetchVars>>

\* For each component, the variables of all the others.
notGenVars == <<batchVars, chunkVars, retrVars, storeVars, provVars, sessVars, fetchVars>>
notBatchVars == <<genVars, chunkVars, retrVars, storeVars, provVars, sessVars, fetchVars>>
notChunkVars == <<genVars, batchVars, retrVars, storeVars, provVars, sessVars, fetchVars>>
notRetrVars == <<genVars, batchVars, chunkVars, storeVars, provVars, sessVars, fetchVars>>
notStoreVars == <<genVars, batchVars, chunkVars, retrVars, provVars, sessVars, fetchVars>>
notProvVars == <<genVars, batchVars, chunkVars, retrVars, storeVars, sessVars, fetchVars>>
notSessVars == <<genVars, batchVars, chunkVars, retrVars, storeVars, provVars, fetchVars>>
notFetchVars == <<genVars, batchVars, chunkVars, retrVars, storeVars, provVars, sessVars>>

\* Python values: a str is a token sequence, None has no content.
Str(s) == [t |-> "str", v |-> s]
PyNone == [t |-> "none", v |-> <<>>]

\* Marks a provider whose generate_answer has not been called.
NotCalled == [t |-> "notcalled", v |-> <<>>]

\* str.startswith on token sequences.
StartsWith(s, p) == Len(s) >= Len(p) /\ SubSeq(s, 1, Len(p)) = p

(***************************************************************************)
(* Idle values: the state of a component no call of which is in progress.  *)
(***************************************************************************)
GenIdle ==
    /\ gpc = "idle" /\ pref = "auto" /\ ctx = <<>>
    /\ openaiKey = FALSE /\ groqKey = FALSE /\ pkgAvail = FALSE
    /\ presult = [p \in {"openai", "groq"} |-> NotCalled] /\ calls = <<>> /\ gresult = PyNone

BatchIdle ==
    /\ bpc = "idle" /\ bprovider = "openai" /\ texts = <<>>
    /\ bidx = 0 /\ failed = {} /\ bresult = <<>>
    /\ clock = 0 /\ callTimes = <<>>

ChunkIdle ==
    /\ cpc = "idle" /\ text = <<>> /\ max_length = 1 /\ overlap = 0
    /\ start = 0 /\ chunks = <<>> /\ spans = <<>>

RetrIdle ==
    /\ rpc = "idle" /\ query_embedding = <<>> /\ embeddings = <<>>
    /\ top_k = 0 /\ scores = <<>> /\ rresult = <<>>

StoreIdle ==
    /\ ipc = "idle" /\ file = [exists |-> FALSE, data |-> <<>>]
    /\ prevStore = [exists |-> FALSE, data |-> <<>>]
    /\ work = 0 /\ newEmbeddings = <<>> /\ runs = 0
    /\ lastLoad = [loader |-> "none", at |-> "idle", seen |-> [exists |-> FALSE, data |-> <<>>],
                   out |-> [kind |-> "none", value |-> <<>>]]

ProvIdle ==
    /\ ppc = "idle" /\ provider_type = "auto" /\ apiKey = FALSE
    /\ OPENAI_AVAILABLE = FALSE /\ SENTENCE_TRANSFORMERS_AVAILABLE = FALSE
    /\ plog = <<>> /\ embedding_provider = [kind |-> "pending", name |-> ""]
    /\ mainAfter = "pending"

SessIdle ==
    /\ spc = "idle" /\ endCause = "none" /\ message = "none"
    /\ lastError = [op |-> "none", exc |-> "none", back |-> "none", printed |-> "none"]
    /\ stdinEOF = FALSE /\ inputParity = 0

FetchIdle ==
    /\ fpc = "idle" /\ fwhich = "fetch_blocks" /\ totalPages = 1 /\ cursor = 0
    /\ attempt = 0 /\ results = <<>> /\ flog = <<>>
    /\ freturn = [kind |-> "pending", value |-> <<>>] /\ gaveUp = FALSE

\* For each component, all the others idle.
NotGenIdle == BatchIdle /\ ChunkIdle /\ RetrIdle /\ StoreIdle /\ ProvIdle /\ SessIdle /\ FetchIdle
NotBatchIdle == GenIdle /\ ChunkIdle /\ RetrIdle /\ StoreIdle /\ ProvIdle /\ SessIdle /\ FetchIdle
NotChunkIdle == GenIdle /\ BatchIdle /\ RetrIdle /\ StoreIdle /\ ProvIdle /\ SessIdle /\ FetchIdle
NotRetrIdle == GenIdle /\ BatchIdle /\ ChunkIdle /\ StoreIdle /\ ProvIdle /\ SessIdle /\ FetchIdle
NotStoreIdle == GenIdle /\ BatchIdle /\ ChunkIdle /\ RetrIdle /\ ProvIdle /\ SessIdle /\ FetchIdle
NotProvIdle == GenIdle /\ BatchIdle /\ ChunkIdle /\ RetrIdle /\ StoreIdle /\ SessIdle /\ FetchIdle
NotSessIdle == GenIdle /\ BatchIdle /\ ChunkIdle /\ RetrIdle /\ StoreIdle /\ ProvIdle /\ FetchIdle
NotFetchIdle == GenIdle /\ BatchIdle /\ ChunkIdle /\ RetrIdle /\ StoreIdle /\ ProvIdle /\ SessIdle

(***************************************************************************)
(* AnswerGenerator: generate_answer and the two chat providers.            *)
(***************************************************************************)

\* llm_providers.py:44 and :99, the same literal in both providers.
NoInfoMsg == <<"I couldn't find relevant information to answer your question.">>

\* rag_agent/answer.py:67
SentinelMsg == <<"No LLM provider available or all providers failed.">>

\* rag_agent/answer.py:51 and llm_providers.py:76
OpenAIErrPrefix == <<"Error generating answer with OpenAI">>

\* llm_providers.py:131
GroqErrPrefix == <<"Error generating answer with Groq">>

Preferences == {"auto", "openai", "groq", "other"}

\* context_chunks: the empty list and non-empty lists of chunk dicts.
Contexts == {<<>>, <<"chunk1">>, <<"chunk1", "chunk2">>}

\* Exceptions client.chat.completions.create can raise.
RemoteErrors == {"quota exceeded", "timeout"}

\* message.content of a chat response: an answer, a text that happens to
\* begin with the OpenAI error prefix, or None.
RemoteContents ==
    { Str(<<"answer A">>), Str(<<"answer B">>),
      Str(OpenAIErrPrefix \o <<" is what the log says">>), PyNone }

\* Outcome of one remote chat call.
RemoteOutcomes ==
    { [kind |-> "content", value |-> c, err |-> ""] : c \in RemoteContents }
    \cup { [kind |-> "raise", value |-> PyNone, err |-> e] : e \in RemoteErrors }

\* OpenAILLMProvider.generate_answer (llm_providers.py:41-76): the value it
\* returns for a non-empty context given the outcome of the remote call.
OpenAIAnswer(o) ==
    IF o.kind = "content" THEN o.value
    ELSE Str(OpenAIErrPrefix \o <<": ", o.err>>)

\* GroqLLMProvider.generate_answer (llm_providers.py:96-131).
GroqAnswer(o) ==
    IF o.kind = "content" THEN o.value
    ELSE Str(GroqErrPrefix \o <<": ", o.err>>)

\* get_llm_provider("openai") (llm_providers.py:140-149): a provider unless
\* the key is missing or the constructor raises ImportError.
OpenAIProviderAvailable == openaiKey /\ pkgAvail

\* get_llm_provider("groq") (llm_providers.py:151-160).
GroqProviderAvailable == groqKey /\ pkgAvail

GenInit ==
    /\ gpc = "start"
    /\ pref \in Preferences
    /\ ctx \in Contexts
    /\ openaiKey \in BOOLEAN
    /\ groqKey \in BOOLEAN
    /\ pkgAvail \in BOOLEAN
    /\ presult = [p \in {"openai", "groq"} |-> NotCalled]
    /\ calls = <<>>
    /\ gresult = PyNone

\* answer.py:46
CheckPreference ==
    /\ gpc = "start"
    /\ gpc' = IF pref \in {"auto", "openai"} THEN "get_openai" ELSE "get_groq"
    /\ UNCHANGED <<pref, ctx, openaiKey, groqKey, pkgAvail, presult, calls, gresult>>
    /\ UNCHANGED notGenVars

\* answer.py:48-49
GetOpenAI ==
    /\ gpc = "get_openai"
    /\ gpc' = IF OpenAIProviderAvailable THEN "openai_generate" ELSE "get_groq"
    /\ UNCHANGED <<pref, ctx, openaiKey, groqKey, pkgAvail, presult, calls, gresult>>
    /\ UNCHANGED notGenVars

\* answer.py:50 calling llm_providers.py:41-76
OpenAIGenerate ==
    /\ gpc = "openai_generate"
    /\ IF ctx = <<>>
       THEN /\ presult' = [presult EXCEPT !["openai"] = Str(NoInfoMsg)]
            /\ calls' = Append(calls, "openai.generate")
       ELSE \E o \in RemoteOutcomes :
            /\ presult' = [presult EXCEPT !["openai"] = OpenAIAnswer(o)]
            /\ calls' = calls \o <<"openai.generate", "openai.remote">>
    /\ gpc' = "openai_check"
    /\ UNCHANGED <<pref, ctx, openaiKey, groqKey, pkgAvail, gresult>>
    /\ UNCHANGED notGenVars

\* Variant of OpenAIResultFailed that omits the error-prefix test.
OpenAIResultFailed_NoPrefix(r) == r.t = "none"

\* answer.py:51: result.startswith(...) raises AttributeError on None, which
\* line 55 catches; otherwise the prefix test decides.
OpenAIResultFailed(r) ==
    \/ r.t = "none"
    \/ StartsWith(r.v, OpenAIErrPrefix)

\* answer.py:51-56
OpenAICheck ==
    /\ gpc = "openai_check"
    /\ IF OpenAIResultFailed(presult["openai"])
       THEN gpc' = "get_groq" /\ UNCHANGED gresult
       ELSE gpc' = "done" /\ gresult' = presult["openai"]
    /\ UNCHANGED <<pref, ctx, openaiKey, groqKey, pkgAvail, presult, calls>>
    /\ UNCHANGED notGenVars

\* answer.py:60-61
GetGroq ==
    /\ gpc = "get_groq"
    /\ gpc' = IF GroqProviderAvailable THEN "groq_generate" ELSE "sentinel"
    /\ UNCHANGED <<pref, ctx, openaiKey, groqKey, pkgAvail, presult, calls, gresult>>
    /\ UNCHANGED notGenVars

\* answer.py:63 calling llm_providers.py:96-131; the value is returned as is.
GroqGenerate ==
    /\ gpc = "groq_generate"
    /\ IF ctx = <<>>
       THEN /\ presult' = [presult EXCEPT !["groq"] = Str(NoInfoMsg)]
            /\ calls' = Append(calls, "groq.generate")
       ELSE \E o \in RemoteOutcomes :
            /\ presult' = [presult EXCEPT !["groq"] = GroqAnswer(o)]
            /\ calls' = calls \o <<"groq.generate", "groq.remote">>
    /\ gresult' = presult'["groq"]
    /\ gpc' = "done"
    /\ UNCHANGED <<pref, ctx, openaiKey, groqKey, pkgAvail>>
    /\ UNCHANGED notGenVars

\* answer.py:67
ReturnSentinel ==
    /\ gpc = "sentinel"
    /\ gresult' = Str(SentinelMsg)
    /\ gpc' = "done"
    /\ UNCHANGED <<pref, ctx, openaiKey, groqKey, pkgAvail, presult, calls>>
    /\ UNCHANGED notGenVars

GenNext ==
    \/ CheckPreference
    \/ GetOpenAI
    \/ OpenAIGenerate
    \/ OpenAICheck
    \/ GetGroq
    \/ GroqGenerate
    \/ ReturnSentinel

InitGen == GenInit /\ NotGenIdle

SpecGen == InitGen /\ [][GenNext]_vars

\* Number of entries of the call log equal to e.
RECURSIVE CountCalls(_, _)
CountCalls(log, e) ==
    IF log = <<>> THEN 0
    ELSE (IF log[1] = e THEN 1 ELSE 0) + CountCalls(Tail(log), e)

\* Position of the first entry of the call log equal to e, 0 when absent.
FirstCall(log, e) ==
    IF \E i \in 1..Len(log) : log[i] = e
    THEN CHOOSE i \in 1..Len(log) : log[i] = e /\ \A j \in 1..(i - 1) : log[j] # e
    ELSE 0

ErrPrefixOf(p) == IF p = "openai" THEN OpenAIErrPrefix ELSE GroqErrPrefix

\* The provider returned a string carrying its own error prefix.
ReturnedOwnError(p) ==
    presult[p].t = "str" /\ StartsWith(presult[p].v, ErrPrefixOf(p))

\* The provider was unavailable or skipped, or it failed.
FailedOrUnavailable(p) == presult[p] = NotCalled \/ ReturnedOwnError(p)

\* C1: whenever every provider of the chain has failed or is unavailable,
\* generate_answer returns the fixed sentinel failure message, never a
\* provider's own error-prefixed string.
C1_ExhaustedChainGivesSentinel ==
    (gpc = "done" /\ FailedOrUnavailable("openai") /\ FailedOrUnavailable("groq"))
        => gresult = Str(SentinelMsg)

\* C2: with a non-empty context, when OpenAI's generate fails and Groq is
\* available, Groq's generate is invoked exactly once, after OpenAI's, and
\* generate_answer returns exactly Groq's result.
C2_FallbackInvokesGroqOnce ==
    (gpc = "done" /\ ctx # <<>> /\ ReturnedOwnError("openai") /\ GroqProviderAvailable)
        => /\ CountCalls(calls, "groq.generate") = 1
           /\ FirstCall(calls, "openai.generate") > 0
           /\ FirstCall(calls, "openai.generate") < FirstCall(calls, "groq.generate")
           /\ presult["groq"] # NotCalled
           /\ gresult = presult["groq"]

\* A run in which OpenAI's remote call raised and Groq answered.
C2_Witness ==
    /\ gpc = "done"
    /\ ctx # <<>>
    /\ presult["openai"] = Str(OpenAIErrPrefix \o <<": ", "timeout">>)
    /\ calls = <<"openai.generate", "openai.remote", "groq.generate", "groq.remote">>
    /\ gresult = Str(<<"answer A">>)

\* C3: generate_answer(query, []) returns the "no relevant information"
\* message for every provider configuration and every model_preference,
\* without invoking any provider's generate and without a remote chat call.
C3_EmptyContextShortCircuit ==
    (gpc = "done" /\ ctx = <<>>)
        => /\ gresult = Str(NoInfoMsg)
           /\ calls = <<>>

(***************************************************************************)
(* EmbeddingProviderRegistry: embed_batch of the two providers.            *)
(***************************************************************************)

\* Largest number of texts handed to embed_batch.
MaxTexts == 4

\* embedding_providers.py:75, the length of the substituted zero vector
\* (the dimension of text-embedding-3-small, the model of line 46).
OpenAIDim == 1536

\* Output dimension of all-MiniLM-L6-v2, the model of line 85.
LocalDim == 384

ProviderDim(p) == IF p = "openai" THEN OpenAIDim ELSE LocalDim

\* [0.0] * n
ZeroVector(n) == [i \in 1..n |-> 0]

\* Embeddings a provider of dimension n returns on success.
EmbeddingsOfDim(n) == { [i \in 1..n |-> 1], [i \in 1..n |-> IF i = 1 THEN 1 ELSE 0] }

\* Lists of n texts.
TextList(n) == [i \in 1..n |-> i]

BatchInit ==
    /\ bprovider \in {"openai", "local"}
    /\ bpc = (IF bprovider = "openai" THEN "openai_loop" ELSE "local_encode")
    /\ \E n \in 0..MaxTexts : texts = TextList(n)
    /\ bidx = 0
    /\ failed = {}
    /\ bresult = <<>>
    /\ clock = 0
    /\ callTimes = <<>>

\* embedding_providers.py:61, time.sleep(0.1), in milliseconds.
RateDelayMs == 100

\* The time OpenAIEmbeddingProvider.embed_text sleeps (lines 56-65): the
\* sleep follows embeddings.create inside the try block, so it is skipped
\* when the call raises.
SleepAfterCall(raised) == IF raised THEN 0 ELSE RateDelayMs

\* OpenAIEmbeddingProvider.embed_text (embedding_providers.py:54-65) given
\* whether embeddings.create raised: the embedding, or [] on any exception.
OpenAIEmbedText(raised, e) == IF raised THEN <<>> ELSE e

\* The vector embed_batch appends for one text (embedding_providers.py:72-75).
OpenAIBatchEntry(embedding) ==
    IF embedding # <<>> THEN embedding ELSE ZeroVector(OpenAIDim)

\* One iteration of the loop of OpenAIEmbeddingProvider.embed_batch
\* (embedding_providers.py:70-75): embeddings.create either raises or
\* answers with an embedding e (when it raises there is no e to choose).
OpenAIBatchStep ==
    /\ bpc = "openai_loop"
    /\ bidx < Len(texts)
    /\ \E raised \in BOOLEAN, e \in EmbeddingsOfDim(OpenAIDim) :
        /\ (raised => e = [i \in 1..OpenAIDim |-> 1])
        /\ bresult' = Append(bresult, OpenAIBatchEntry(OpenAIEmbedText(raised, e)))
        /\ failed' = IF raised THEN failed \cup {bidx + 1} ELSE failed
        /\ callTimes' = Append(callTimes, clock)
        /\ clock' = clock + SleepAfterCall(raised)
    /\ bidx' = bidx + 1
    /\ UNCHANGED <<bpc, bprovider, texts>>
    /\ UNCHANGED notBatchVars

\* embedding_providers.py:76
OpenAIBatchReturn ==
    /\ bpc = "openai_loop"
    /\ bidx = Len(texts)
    /\ bpc' = "done"
    /\ UNCHANGED <<bprovider, texts, bidx, failed, bresult, clock, callTimes>>
    /\ UNCHANGED notBatchVars

\* A call of OpenAIEmbeddingProvider.embed_text outside embed_batch
\* (embedding_providers.py:54-65), made on the same provider once the
\* batch has returned.
OpenAIEmbedTextCall ==
    /\ bpc = "done" /\ bprovider = "openai"
    /\ Len(callTimes) = Len(texts)
    /\ \E raised \in BOOLEAN :
        /\ callTimes' = Append(callTimes, clock)
        /\ clock' = clock + SleepAfterCall(raised)
    /\ UNCHANGED <<bpc, bprovider, texts, bidx, failed, bresult>>
    /\ UNCHANGED notBatchVars

\* LocalEmbeddingProvider.embed_batch (embedding_providers.py:103-110):
\* model.encode embeds the whole list at once; an exception on any text
\* fails the whole call and the handler returns [].
LocalBatch ==
    /\ bpc = "local_encode"
    /\ \/ /\ \E e \in EmbeddingsOfDim(LocalDim) :
                bresult' = [i \in 1..Len(texts) |-> e]
          /\ failed' = {}
       \/ /\ texts # <<>>
          /\ \E bad \in (SUBSET (1..Len(texts))) \ {{}} : failed' = bad
          /\ bresult' = <<>>
    /\ bpc' = "done"
    /\ UNCHANGED <<bprovider, texts, bidx, clock, callTimes>>
    /\ UNCHANGED notBatchVars

BatchNext ==
    \/ OpenAIBatchStep
    \/ OpenAIBatchReturn
    \/ OpenAIEmbedTextCall
    \/ LocalBatch

InitBatch == BatchInit /\ NotBatchIdle

SpecBatch == InitBatch /\ [][BatchNext]_vars

\* C4: embed_batch returns exactly one vector per input text; a text whose
\* embedding failed is represented by the all-zero vector of the provider's
\* dimension and every other position holds an embedding.
C4_BatchKeepsLength ==
    bpc = "done" =>
        /\ Len(bresult) = Len(texts)
        /\ \A i \in 1..Len(texts) :
            IF i \in failed
            THEN bresult[i] = ZeroVector(ProviderDim(bprovider))
            ELSE bresult[i] \in EmbeddingsOfDim(ProviderDim(bprovider))

(***************************************************************************)
(* Chunker: chunk_text.  A text is a sequence of character codes; Python   *)
(* indices are 0-based and slices follow Python's rules for negative and   *)
(* out-of-range indices.                                                   *)
(***************************************************************************)

\* ord('.'), ord('!'), ord('?'): the terminators of embed.py:26
Dot == 46
Bang == 33
Question == 63

\* embed.py:25 and :29, the width of the boundary search
BoundaryWindow == 100

\* Exhaustive family: texts up to this length, every set of terminator positions.
MaxTextLen == 5

\* Larger texts carry at most this many terminators (or only terminators).
MaxTerms == 2

\* Chunks appended before the model stops following a call.
MaxChunks == 40

Max2(a, b) == IF a >= b THEN a ELSE b
Max3(a, b, c) == Max2(a, Max2(b, c))

\* CPython's normalisation of a slice index against a length.
SliceIndex(i, n) ==
    IF i < 0 THEN (IF i + n < 0 THEN 0 ELSE i + n)
    ELSE (IF i > n THEN n ELSE i)

\* s[a:b]
PySlice(s, a, b) ==
    LET lo == SliceIndex(a, Len(s))
        hi == SliceIndex(b, Len(s))
    IN  IF lo < hi THEN SubSeq(s, lo + 1, hi) ELSE <<>>

\* s[a:]
PySliceFrom(s, a) == PySlice(s, a, Len(s))

\* s.rfind(c): 0-based index of the right-most c, -1 when absent.
RFind(s, c) ==
    IF \E i \in 1..Len(s) : s[i] = c
    THEN (CHOOSE i \in 1..Len(s) : s[i] = c /\ \A j \in (i + 1)..Len(s) : s[j] # c) - 1
    ELSE -1

\* embed.py:25
BoundarySearch(t, end) == PySlice(t, end - BoundaryWindow, end)

\* embed.py:26
SentenceEnd(bs) == Max3(RFind(bs, Dot), RFind(bs, Bang), RFind(bs, Question))

\* Variant of SnappedEnd that cuts one character too late.
SnappedEnd_OffByOne(end, se) ==
    IF se > 0 THEN end - BoundaryWindow + se + 2 ELSE end

\* embed.py:28-29
SnappedEnd(end, se) ==
    IF se > 0 THEN end - BoundaryWindow + se + 1 ELSE end

\* Variant of NextStart that steps back twice the overlap.
NextStart_DoubleOverlap(end, ov) == end - 2 * ov

\* embed.py:32
NextStart(end, ov) == end - ov

\* The character at 0-based position i: a terminator when i is in terms (the
\* three terminators take turns), a letter a..z otherwise.
CharAt(i, terms) ==
    IF i \in terms
    THEN (IF i % 3 = 0 THEN Dot ELSE IF i % 3 = 1 THEN Bang ELSE Question)
    ELSE 97 + (i % 26)

MakeText(n, terms) == [i \in 1..n |-> CharAt(i - 1, terms)]

SubsetsUpTo(S, k) == { T \in SUBSET S : Cardinality(T) <= k }

\* Families of larger inputs: a text length, the positions where terminators
\* may stand, and the (max_length, overlap) pairs tried on it.
Scenarios ==
    { [len |-> 60,   cands |-> {10, 11, 30, 49},
       params |-> {<<50, 0>>, <<50, 10>>}],
      [len |-> 160,  cands |-> {0, 1, 50, 99, 100},
       params |-> {<<100, 0>>, <<100, 1>>, <<100, 50>>, <<100, 99>>}],
      [len |-> 300,  cands |-> {100, 101, 149, 160, 199},
       params |-> {<<200, 0>>, <<200, 100>>, <<200, 150>>, <<200, 199>>}],
      [len |-> 2500, cands |-> {0, 899, 900, 901, 999, 1000, 1702, 1703, 1800, 1801, 1899, 2499},
       params |-> {<<1000, 100>>}] }

ChunkInputs ==
    { [text |-> MakeText(n, T), max_length |-> m, overlap |-> o] :
        n \in 0..MaxTextLen, T \in SUBSET (0..(MaxTextLen - 1)),
        m \in 1..MaxTextLen, o \in 0..(MaxTextLen - 1) }
    \cup UNION { { [text |-> MakeText(sc.len, T), max_length |-> pr[1], overlap |-> pr[2]] :
                    T \in SubsetsUpTo(sc.cands, MaxTerms) \cup {0..(sc.len - 1)},
                    pr \in sc.params } : sc \in Scenarios }

ChunkInit ==
    /\ cpc = "start"
    /\ \E in \in ChunkInputs :
        /\ in.overlap < in.max_length
        /\ text = in.text
        /\ max_length = in.max_length
        /\ overlap = in.overlap
    /\ start = 0
    /\ chunks = <<>>
    /\ spans = <<>>

\* embed.py:13-14
ChunkShortText ==
    /\ cpc = "start"
    /\ Len(text) <= max_length
    /\ chunks' = <<text>>
    /\ spans' = <<[start |-> 0, win |-> Len(text), cut |-> Len(text), lo |-> 0, hi |-> Len(text)]>>
    /\ cpc' = "done"
    /\ UNCHANGED <<text, max_length, overlap, start>>
    /\ UNCHANGED notChunkVars

\* embed.py:16-17
ChunkEnterLoop ==
    /\ cpc = "start"
    /\ Len(text) > max_length
    /\ cpc' = "loop"
    /\ UNCHANGED <<text, max_length, overlap, start, chunks, spans>>
    /\ UNCHANGED notChunkVars

\* embed.py:18-22: the window reaches the end of the text.
ChunkLast ==
    /\ cpc = "loop"
    /\ start < Len(text)
    /\ start + max_length >= Len(text)
    /\ chunks' = Append(chunks, PySliceFrom(text, start))
    /\ spans' = Append(spans, [start |-> start, win |-> start + max_length,
                               cut |-> start + max_length,
                               lo |-> SliceIndex(start, Len(text)), hi |-> Len(text)])
    /\ cpc' = "done"
    /\ UNCHANGED <<text, max_length, overlap, start>>
    /\ UNCHANGED notChunkVars

\* embed.py:18-20, 24-32: one window that stops short of the end of the text.
ChunkWindow ==
    /\ cpc = "loop"
    /\ Len(chunks) < MaxChunks
    /\ start < Len(text)
    /\ start + max_length < Len(text)
    /\ LET end == start + max_length
           cut == SnappedEnd(end, SentenceEnd(BoundarySearch(text, end)))
       IN  /\ chunks' = Append(chunks, PySlice(text, start, cut))
           /\ spans' = Append(spans, [start |-> start, win |-> end, cut |-> cut,
                                      lo |-> SliceIndex(start, Len(text)),
                                      hi |-> SliceIndex(cut, Len(text))])
           /\ start' = NextStart(cut, overlap)
    /\ UNCHANGED <<cpc, text, max_length, overlap>>
    /\ UNCHANGED notChunkVars

ChunkNext ==
    \/ ChunkShortText
    \/ ChunkEnterLoop
    \/ ChunkLast
    \/ ChunkWindow

InitChunk == ChunkInit /\ NotChunkIdle

SpecChunk == InitChunk /\ [][ChunkNext]_vars

(***************************************************************************)
(* SimilarityIndex: cosine_similarity and retrieve_top_chunks.             *)
(* A similarity is kept exactly, as the dot product d and the product nn   *)
(* of the two squared norms (the value is d / sqrt(nn)); on the vectors    *)
(* the model draws, comparing these exact values agrees with comparing the *)
(* floats numpy computes.  0/0 is NaN, which numpy returns with a warning. *)
(***************************************************************************)

\* Longest record list tried with every combination of vectors.
MaxRecords == 3

\* Longest vector.
MaxDim == 2

\* Length of the long record lists (one zero vector, two tied records).
LongLen == 11

Components == {0, 1}

Vectors == UNION { [1..n -> Components] : n \in 1..MaxDim }

RECURSIVE DotProduct(_, _)
DotProduct(a, b) ==
    IF a = <<>> THEN 0 ELSE a[1] * b[1] + DotProduct(Tail(a), Tail(b))

NaN == [kind |-> "nan", d |-> 0, nn |-> 0]

\* cosine_similarity (answer.py:11-15) on vectors of equal length.
CosineSimilarity(a, b) ==
    IF DotProduct(a, a) * DotProduct(b, b) = 0
    THEN NaN
    ELSE [kind |-> "num", d |-> DotProduct(a, b), nn |-> DotProduct(a, a) * DotProduct(b, b)]

\* np.dot raises ValueError when the shapes differ (answer.py:15).
DotRaises(a, b) == Len(a) # Len(b)

Sign(x) == IF x > 0 THEN 1 ELSE IF x < 0 THEN -1 ELSE 0

\* The float comparison x < y; every comparison with NaN is false.
Lt(x, y) ==
    /\ x.kind = "num"
    /\ y.kind = "num"
    /\ Sign(x.d) * x.d * x.d * y.nn < Sign(y.d) * y.d * y.d * x.nn

Reverse(s) == [i \in 1..Len(s) |-> s[Len(s) + 1 - i]]

\* count_run of CPython's list.sort on keys: the length of the leading run
\* and whether it is strictly descending.
CountRun(s) ==
    IF Len(s) < 2 THEN [n |-> Len(s), desc |-> FALSE]
    ELSE LET desc == Lt(s[2].key, s[1].key)
             stops == { i \in 2..Len(s) :
                          \/ i = Len(s)
                          \/ (desc /\ ~Lt(s[i + 1].key, s[i].key))
                          \/ (~desc /\ Lt(s[i + 1].key, s[i].key)) }
         IN  [n |-> CHOOSE i \in stops : \A j \in stops : i <= j, desc |-> desc]

\* The binary search of binarysort: where pivot goes in sorted[1..r].
RECURSIVE InsertPos(_, _, _, _)
InsertPos(sorted, pivot, l, r) ==
    IF l >= r THEN l
    ELSE LET p == l + ((r - l) \div 2)
         IN  IF Lt(pivot.key, sorted[p + 1].key)
             THEN InsertPos(sorted, pivot, l, p)
             ELSE InsertPos(sorted, pivot, p + 1, r)

\* binarysort: s[1..n] is the run, the remaining elements are inserted in turn.
RECURSIVE BinarySort(_, _)
BinarySort(s, n) ==
    IF n >= Len(s) THEN s
    ELSE LET pivot == s[n + 1]
             at == InsertPos(s, pivot, 0, n)
         IN  BinarySort(SubSeq(s, 1, at) \o <<pivot>> \o SubSeq(s, at + 1, n)
                            \o SubSeq(s, n + 2, Len(s)), n + 1)

\* list.sort ascending, for lists shorter than 64 (one run, then binarysort).
ListSort(s) ==
    LET cr == CountRun(s)
        run == SubSeq(s, 1, cr.n)
        s1 == (IF cr.desc THEN Reverse(run) ELSE run) \o SubSeq(s, cr.n + 1, Len(s))
    IN  BinarySort(s1, cr.n)

\* scores.sort(key=lambda x: x[0], reverse=True) (answer.py:27): CPython
\* reverses the list, sorts it ascending and reverses it again.
SortDescending(s) == Reverse(ListSort(Reverse(s)))

\* scores[:top_k] (answer.py:28)
TopSlice(s, k) == PySlice(s, 0, k)

\* The record list holding the given vectors; a record's title is its position.
Records(vs) == [i \in 1..Len(vs) |-> [title |-> i, embedding |-> vs[i]]]

VectorLists == UNION { [1..n -> Vectors] : n \in 0..MaxRecords }

\* Lists of LongLen records: one zero vector, two records <<1, 0>>, the rest <<1, 1>>.
LongVectorLists ==
    { [i \in 1..LongLen |-> IF i = z THEN <<0, 0>>
                            ELSE IF i \in {a, b} THEN <<1, 0>> ELSE <<1, 1>>] :
        z \in 1..LongLen, a \in 1..LongLen, b \in 1..LongLen }

RetrInit ==
    /\ rpc = "start"
    /\ \/ /\ \E vs \in VectorLists : embeddings = Records(vs)
          /\ query_embedding \in Vectors
          /\ top_k \in 0..(MaxRecords + 1)
       \/ /\ \E vs \in LongVectorLists : embeddings = Records(vs)
          /\ query_embedding = <<1, 1>>
          /\ top_k = LongLen
    /\ scores = <<>>
    /\ rresult = <<>>

\* answer.py:19-20
RetrieveEmpty ==
    /\ rpc = "start"
    /\ embeddings = <<>>
    /\ rresult' = <<>>
    /\ rpc' = "done"
    /\ UNCHANGED <<query_embedding, embeddings, top_k, scores>>
    /\ UNCHANGED notRetrVars

\* answer.py:19, 22
RetrieveBegin ==
    /\ rpc = "start"
    /\ embeddings # <<>>
    /\ rpc' = "scoring"
    /\ UNCHANGED <<query_embedding, embeddings, top_k, scores, rresult>>
    /\ UNCHANGED notRetrVars

\* answer.py:23-25: one iteration; the ValueError of np.dot propagates.
RetrieveScore ==
    /\ rpc = "scoring"
    /\ Len(scores) < Len(embeddings)
    /\ LET rec == embeddings[Len(scores) + 1]
       IN  IF DotRaises(query_embedding, rec.embedding)
           THEN rpc' = "raised" /\ UNCHANGED scores
           ELSE /\ scores' = Append(scores,
                        [key |-> CosineSimilarity(query_embedding, rec.embedding), rec |-> rec])
                /\ UNCHANGED rpc
    /\ UNCHANGED <<query_embedding, embeddings, top_k, rresult>>
    /\ UNCHANGED notRetrVars

\* answer.py:27-28
RetrieveSortReturn ==
    /\ rpc = "scoring"
    /\ Len(scores) = Len(embeddings)
    /\ LET top == TopSlice(SortDescending(scores), top_k)
       IN  rresult' = [i \in 1..Len(top) |-> top[i].rec]
    /\ rpc' = "done"
    /\ UNCHANGED <<query_embedding, embeddings, top_k, scores>>
    /\ UNCHANGED notRetrVars

RetrNext ==
    \/ RetrieveEmpty
    \/ RetrieveBegin
    \/ RetrieveScore
    \/ RetrieveSortReturn

InitRetrieve == RetrInit /\ NotRetrIdle

SpecRetrieve == InitRetrieve /\ [][RetrNext]_vars

\* C5: every chunk chunk_text produces has length <= max_length, and
\* boundary snapping only ever shortens the window it is applied to.
C5_ChunkLengthBounded ==
    \A i \in 1..Len(chunks) :
        /\ Len(chunks[i]) <= max_length
        /\ spans[i].cut <= spans[i].win
        /\ Len(PySlice(text, spans[i].start, spans[i].cut))
               <= Len(PySlice(text, spans[i].start, spans[i].win))

\* A finished call in which a window was snapped back to a terminator.
C5_Witness ==
    /\ cpc = "done"
    /\ Len(chunks) >= 2
    /\ \E i \in 1..Len(chunks) :
        /\ spans[i].cut < spans[i].win
        /\ Len(chunks[i]) > 0
        /\ Len(chunks[i]) < max_length

\* c with its last n characters dropped.
DropLast(c, n) == SubSeq(c, 1, Max2(0, Len(c) - n))

\* The chunks in order, each but the last without its last ov characters.
RECURSIVE Reconstruct(_, _)
Reconstruct(chs, ov) ==
    IF chs = <<>> THEN <<>>
    ELSE IF Len(chs) = 1 THEN chs[1]
    ELSE DropLast(chs[1], ov) \o Reconstruct(Tail(chs), ov)

\* C6: dropping the last `overlap` characters of every returned chunk but
\* the last and concatenating the results yields the text.
C6_ReconstructsText ==
    cpc = "done" => Reconstruct(chunks, overlap) = text

\* Characters chunk i and chunk i + 1 have in common: the overlap of the
\* index ranges they were sliced from.
Shared(i) == Max2(0, spans[i].hi - spans[i + 1].lo)

\* C7: a text of 2,500 characters chunked with max_length = 1000 and
\* overlap = 100 gives exactly 3 chunks of at most 1000 characters, each
\* consecutive pair sharing at most 100 characters.
C7_DefaultExample ==
    (cpc = "done" /\ Len(text) = 2500 /\ max_length = 1000 /\ overlap = 100)
        => /\ Len(chunks) = 3
           /\ \A i \in 1..Len(chunks) : Len(chunks[i]) <= 1000
           /\ \A i \in 1..(Len(chunks) - 1) : Shared(i) <= 100

\* A finished call on a 2,500-character text whose first two windows were
\* both snapped back to a terminator.
C7_Witness ==
    /\ cpc = "done"
    /\ Len(text) = 2500 /\ max_length = 1000 /\ overlap = 100
    /\ Len(chunks) = 3
    /\ spans[1].cut < spans[1].win
    /\ spans[2].cut < spans[2].win
    /\ Shared(1) = 100

\* Similarity of input record number t to the query, as the code computes it.
SimOf(t) == CosineSimilarity(query_embedding, embeddings[t].embedding)

Min2(a, b) == IF a <= b THEN a ELSE b

\* Position of record number t in the result, 0 when it was cut off.
ResultPos(t) ==
    IF \E i \in 1..Len(rresult) : rresult[i].title = t
    THEN CHOOSE i \in 1..Len(rresult) : rresult[i].title = t
    ELSE 0

\* C8: retrieve_top_chunks returns exactly min(k, len(records)) records,
\* each taken from the input list, ordered by non-increasing similarity to
\* the query (no returned record is followed by one of strictly greater
\* similarity, and no record cut off is strictly more similar than a
\* returned one).
C8_TopKSorted ==
    rpc = "done" =>
        /\ Len(rresult) = Min2(top_k, Len(embeddings))
        /\ \A i \in 1..Len(rresult) :
            /\ rresult[i].title \in 1..Len(embeddings)
            /\ rresult[i] = embeddings[rresult[i].title]
        /\ \A i \in 1..Len(rresult), j \in 1..Len(rresult) :
            i < j => ~Lt(SimOf(rresult[i].title), SimOf(rresult[j].title))
        /\ \A i \in 1..Len(rresult), t \in 1..Len(embeddings) :
            ResultPos(t) = 0 => ~Lt(SimOf(rresult[i].title), SimOf(t))

\* Two records have equal similarity to the query.
Tied(a, b) ==
    /\ SimOf(a).kind = "num"
    /\ SimOf(b).kind = "num"
    /\ ~Lt(SimOf(a), SimOf(b))
    /\ ~Lt(SimOf(b), SimOf(a))

\* C9: of two records with equal similarity the one earlier in the input
\* list comes earlier in the result, and the top-k cut keeps the earlier.
C9_TiesKeepInputOrder ==
    rpc = "done" =>
        \A a \in 1..Len(embeddings), b \in 1..Len(embeddings) :
            (a < b /\ Tied(a, b) /\ ResultPos(b) > 0)
                => (ResultPos(a) > 0 /\ ResultPos(a) < ResultPos(b))

IsZeroVector(v) == \A i \in 1..Len(v) : v[i] = 0

\* C10: no similarity involving an all-zero vector or two vectors of different
\* length is ever taken as a score: scoring such a record raises instead.
C10_UndefinedSimilarityRejected ==
    \A i \in 1..Len(scores) :
        /\ ~IsZeroVector(query_embedding)
        /\ ~IsZeroVector(scores[i].rec.embedding)
        /\ Len(scores[i].rec.embedding) = Len(query_embedding)

(***************************************************************************)
(* The embedding store: embeddings.json, written by save_embeddings at the *)
(* end of an indexing run (indexing/embed.py) and read by the two           *)
(* load_embeddings functions (indexing/embed.py, rag_agent/answer.py).      *)
(* A reader is another process (a second session of the app) and may load   *)
(* at any moment of a run.  The file's contents are a sequence of JSON      *)
(* tokens; json.dump produces them one after the other.                     *)
(***************************************************************************)
MaxRuns == 2
MaxWork == 2
MaxPrior == 2

NoRec == [run |-> 0, idx |-> 0]
LB == [k |-> "[", rec |-> NoRec]
RB == [k |-> "]", rec |-> NoRec]
Comma == [k |-> ",", rec |-> NoRec]
Junk == [k |-> "junk", rec |-> NoRec]
RecTok(r) == [k |-> "rec", rec |-> r]

\* The record main appends for chunk number i of run r (embed.py:141-148).
Record(r, i) == [run |-> r, idx |-> i]

\* json.dump of a list of records (embed.py:50).
JsonDump(recs) ==
    LET n == Len(recs)
    IN  IF n = 0 THEN <<LB, RB>>
        ELSE <<LB>> \o [i \in 1..(2 * n - 1) |->
                          IF i % 2 = 1 THEN RecTok(recs[(i + 1) \div 2]) ELSE Comma]
                    \o <<RB>>

\* Whether json.load accepts the contents as a list of records; otherwise
\* it raises json.JSONDecodeError (a ValueError).
WellFormed(data) ==
    LET n == Len(data)
    IN  /\ n >= 2 /\ data[1] = LB /\ data[n] = RB
        /\ \/ n = 2
           \/ /\ n % 2 = 1
              /\ \A i \in 2..(n - 1) : IF i % 2 = 0 THEN data[i].k = "rec" ELSE data[i] = Comma

\* json.load of well-formed contents (embed.py:57, answer.py:73).
JsonLoad(data) == [i \in 1..((Len(data) - 1) \div 2) |-> data[2 * i].rec]

Returned(v) == [kind |-> "return", value |-> v]
Raised == [kind |-> "raise", value |-> <<>>]
Absent == [exists |-> FALSE, data |-> <<>>]
Contents(d) == [exists |-> TRUE, data |-> d]

\* indexing/embed.py load_embeddings: only FileNotFoundError is caught.
IndexingLoadEmbeddings(f) ==
    IF ~f.exists THEN Returned(<<>>)
    ELSE IF WellFormed(f.data) THEN Returned(JsonLoad(f.data))
    ELSE Raised

\* rag_agent/answer.py load_embeddings: FileNotFoundError and every other
\* Exception are caught and turned into [].
AnswerLoadEmbeddings(f) ==
    IF ~f.exists THEN Returned(<<>>)
    ELSE IF WellFormed(f.data) THEN Returned(JsonLoad(f.data))
    ELSE Returned(<<>>)

\* Stores an earlier run (run 0) can have left: save_embeddings is only
\* called with a non-empty list (embed.py:151-152).
PriorStores == {Contents(JsonDump([i \in 1..n |-> Record(0, i)])) : n \in 1..MaxPrior}

\* Contents that are not valid JSON.
Garbage == {Contents(<<Junk>>), Contents(<<>>)}

StoreInit ==
    /\ ipc = "ready"
    /\ file \in {Absent} \cup PriorStores \cup Garbage
    /\ prevStore = file
    /\ work = 0 /\ newEmbeddings = <<>> /\ runs = 0
    /\ lastLoad = [loader |-> "none", at |-> "idle", seen |-> Absent,
                   out |-> [kind |-> "none", value |-> <<>>]]

Running == {"embedding", "save_open", "save_dump"}
Stopped == {"ready", "finished", "interrupted", "aborted"}

\* main returns before the embedding loop: no database id, no provider,
\* or fetching raised (embed.py:64-67, 74-80, 104-107, 112-117).
IndexAbort ==
    /\ ipc \in Stopped /\ runs < MaxRuns
    /\ ipc' = "aborted"
    /\ runs' = runs + 1
    /\ prevStore' = file
    /\ newEmbeddings' = <<>> /\ work' = 0
    /\ UNCHANGED <<file, lastLoad>>
    /\ UNCHANGED notStoreVars

\* main up to line 119: the pages are fetched and `embeddings` is empty.
\* w is the number of chunks main will try to embed.
IndexBegin ==
    /\ ipc \in Stopped /\ runs < MaxRuns
    /\ \E w \in 0..MaxWork : work' = w
    /\ ipc' = "embedding"
    /\ runs' = runs + 1
    /\ prevStore' = file
    /\ newEmbeddings' = <<>>
    /\ UNCHANGED <<file, lastLoad>>
    /\ UNCHANGED notStoreVars

\* One pass of the inner loop (embed.py:131-148): embed_text returns a
\* vector or [], and the record is appended only for a vector.
IndexEmbedChunk ==
    /\ ipc = "embedding" /\ work > 0
    /\ \E ok \in BOOLEAN :
         newEmbeddings' = IF ok THEN Append(newEmbeddings, Record(runs, work))
                          ELSE newEmbeddings
    /\ work' = work - 1
    /\ UNCHANGED <<ipc, file, prevStore, runs, lastLoad>>
    /\ UNCHANGED notStoreVars

\* embed.py:151-155: save only a non-empty list.
IndexSaveOrSkip ==
    /\ ipc = "embedding" /\ work = 0
    /\ ipc' = IF newEmbeddings # <<>> THEN "save_open" ELSE "finished"
    /\ UNCHANGED <<file, prevStore, work, newEmbeddings, runs, lastLoad>>
    /\ UNCHANGED notStoreVars

\* save_embeddings, open(filename, 'w') (embed.py:49): the file is created
\* or truncated.
SaveOpen ==
    /\ ipc = "save_open"
    /\ file' = Contents(<<>>)
    /\ ipc' = "save_dump"
    /\ UNCHANGED <<prevStore, work, newEmbeddings, runs, lastLoad>>
    /\ UNCHANGED notStoreVars

\* json.dump writes the next piece of the serialisation (embed.py:50).
SaveWrite ==
    /\ ipc = "save_dump"
    /\ Len(file.data) < Len(JsonDump(newEmbeddings))
    /\ file' = Contents(Append(file.data, JsonDump(newEmbeddings)[Len(file.data) + 1]))
    /\ UNCHANGED <<ipc, prevStore, work, newEmbeddings, runs, lastLoad>>
    /\ UNCHANGED notStoreVars

\* The with block ends and main prints its last line (embed.py:51, 153).
SaveClose ==
    /\ ipc = "save_dump"
    /\ file.data = JsonDump(newEmbeddings)
    /\ ipc' = "finished"
    /\ UNCHANGED <<file, prevStore, work, newEmbeddings, runs, lastLoad>>
    /\ UNCHANGED notStoreVars

\* The run is interrupted (KeyboardInterrupt, or the process is killed).
Interrupt ==
    /\ ipc \in Running
    /\ ipc' = "interrupted"
    /\ UNCHANGED <<file, prevStore, work, newEmbeddings, runs, lastLoad>>
    /\ UNCHANGED notStoreVars

\* A call of indexing/embed.py load_embeddings.
LoadIndexing ==
    /\ ipc # "idle"
    /\ lastLoad' = [loader |-> "indexing", at |-> ipc, seen |-> file,
                    out |-> IndexingLoadEmbeddings(file)]
    /\ UNCHANGED <<ipc, file, prevStore, work, newEmbeddings, runs>>
    /\ UNCHANGED notStoreVars

\* A call of rag_agent/answer.py load_embeddings.
LoadAnswer ==
    /\ ipc # "idle"
    /\ lastLoad' = [loader |-> "answer", at |-> ipc, seen |-> file,
                    out |-> AnswerLoadEmbeddings(file)]
    /\ UNCHANGED <<ipc, file, prevStore, work, newEmbeddings, runs>>
    /\ UNCHANGED notStoreVars

StoreNext ==
    \/ IndexAbort
    \/ IndexBegin
    \/ IndexEmbedChunk
    \/ IndexSaveOrSkip
    \/ SaveOpen
    \/ SaveWrite
    \/ SaveClose
    \/ Interrupt
    \/ LoadIndexing
    \/ LoadAnswer

InitStore == StoreInit /\ NotStoreIdle

SpecStore == InitStore /\ [][StoreNext]_vars

\* C11: every load of the store, by either load_embeddings, returns an empty
\* list without raising when the file is absent and when its contents are
\* malformed.
C11_LoadReturnsEmptyOnBadStore ==
    (lastLoad.loader # "none" /\ (~lastLoad.seen.exists \/ ~WellFormed(lastLoad.seen.data)))
        => lastLoad.out = Returned(<<>>)

\* The store holds exactly the records recs (an absent file holds none).
StoreHolds(recs) == IF file.exists THEN file.data = JsonDump(recs) ELSE recs = <<>>

\* C12: after an indexing run that ran to completion the store contains
\* exactly the records of that run, also when the run produced none.
C12_StoreIsThisRun == (ipc = "finished") => StoreHolds(newEmbeddings)

\* The records of a complete store.
RecordsOf(f) == IF f.exists THEN JsonLoad(f.data) ELSE <<>>
Complete(f) == ~f.exists \/ WellFormed(f.data)

\* C13: an interrupted run leaves the store as the previous save wrote it,
\* and a load made while a run is in progress (save_embeddings included)
\* returns the complete previous list or the complete new one.
C13_InterruptAndReadersSeeWholeStore ==
    /\ (ipc = "interrupted") => file = prevStore
    /\ (lastLoad.loader # "none" /\ lastLoad.at \in Running /\ ipc \in Running /\ Complete(prevStore))
         => \/ lastLoad.out = Returned(RecordsOf(prevStore))
            \/ /\ lastLoad.at = "save_dump"
               /\ lastLoad.out = Returned(newEmbeddings)

(***************************************************************************)
(* EmbeddingProvider selection: get_embedding_provider                     *)
(* (embedding_providers.py:116-162) and the test indexing main makes on    *)
(* its result (indexing/embed.py:103-110).                                 *)
(***************************************************************************)
ProviderTypes == {"openai", "local", "auto", "other"}

Pending == [kind |-> "pending", name |-> ""]
NoProvider == [kind |-> "none", name |-> ""]
Provider(n) == [kind |-> "provider", name |-> n]

\* One entry of plog.
Event(op, who, ok) == [op |-> op, who |-> who, ok |-> ok]

ProvInit ==
    /\ ppc = "start"
    /\ provider_type \in ProviderTypes
    /\ apiKey \in BOOLEAN
    /\ OPENAI_AVAILABLE \in BOOLEAN
    /\ SENTENCE_TRANSFORMERS_AVAILABLE \in BOOLEAN
    /\ plog = <<>> /\ embedding_provider = Pending /\ mainAfter = "pending"

\* provider_type == "openai" (lines 119-128): None without a key; the
\* constructor raises ImportError without the package, and the OpenAI
\* client's own constructor may raise; every exception gives None.
ExplicitOpenAI ==
    /\ ppc = "start" /\ provider_type = "openai"
    /\ IF ~apiKey
       THEN /\ embedding_provider' = NoProvider
            /\ plog' = plog
       ELSE \E built \in (IF OPENAI_AVAILABLE THEN BOOLEAN ELSE {FALSE}) :
              /\ plog' = Append(plog, Event("construct", "openai", built))
              /\ embedding_provider' = IF built THEN Provider("openai") ELSE NoProvider
    /\ ppc' = "done"
    /\ UNCHANGED <<provider_type, apiKey, OPENAI_AVAILABLE, SENTENCE_TRANSFORMERS_AVAILABLE, mainAfter>>
    /\ UNCHANGED notProvVars

\* provider_type == "local" (lines 130-135).
ExplicitLocal ==
    /\ ppc = "start" /\ provider_type = "local"
    /\ \E built \in (IF SENTENCE_TRANSFORMERS_AVAILABLE THEN BOOLEAN ELSE {FALSE}) :
         /\ plog' = Append(plog, Event("construct", "local", built))
         /\ embedding_provider' = IF built THEN Provider("local") ELSE NoProvider
    /\ ppc' = "done"
    /\ UNCHANGED <<provider_type, apiKey, OPENAI_AVAILABLE, SENTENCE_TRANSFORMERS_AVAILABLE, mainAfter>>
    /\ UNCHANGED notProvVars

\* Any other provider_type falls through to the final return None (line 162).
UnknownType ==
    /\ ppc = "start" /\ provider_type = "other"
    /\ embedding_provider' = NoProvider
    /\ ppc' = "done"
    /\ UNCHANGED <<provider_type, apiKey, OPENAI_AVAILABLE, SENTENCE_TRANSFORMERS_AVAILABLE, plog, mainAfter>>
    /\ UNCHANGED notProvVars

\* "auto", lines 139-143: with a key and the package, construct the OpenAI
\* provider; an exception is caught at line 148 and leads to the fallback.
AutoOpenAIConstruct ==
    /\ ppc = "start" /\ provider_type = "auto"
    /\ IF apiKey /\ OPENAI_AVAILABLE
       THEN \E built \in BOOLEAN :
              /\ plog' = Append(plog, Event("construct", "openai", built))
              /\ ppc' = IF built THEN "probe" ELSE "fallback"
       ELSE /\ plog' = plog
            /\ ppc' = "fallback"
    /\ UNCHANGED <<provider_type, apiKey, OPENAI_AVAILABLE, SENTENCE_TRANSFORMERS_AVAILABLE,
                   embedding_provider, mainAfter>>
    /\ UNCHANGED notProvVars

\* "auto", lines 144-147: provider.embed_text("test") returns a vector or
\* [] (embed_text catches its own exceptions, lines 63-65).
AutoOpenAIProbe ==
    /\ ppc = "probe"
    /\ \E alive \in BOOLEAN :
         /\ plog' = Append(plog, Event("probe", "openai", alive))
         /\ IF alive
            THEN embedding_provider' = Provider("openai") /\ ppc' = "done"
            ELSE embedding_provider' = embedding_provider /\ ppc' = "fallback"
    /\ UNCHANGED <<provider_type, apiKey, OPENAI_AVAILABLE, SENTENCE_TRANSFORMERS_AVAILABLE, mainAfter>>
    /\ UNCHANGED notProvVars

\* "auto", lines 151-162: the local provider is constructed and returned
\* as it is; an exception, or the missing package, gives None.
AutoLocal ==
    /\ ppc = "fallback"
    /\ IF SENTENCE_TRANSFORMERS_AVAILABLE
       THEN \E built \in BOOLEAN :
              /\ plog' = Append(plog, Event("construct", "local", built))
              /\ embedding_provider' = IF built THEN Provider("local") ELSE NoProvider
       ELSE /\ plog' = plog
            /\ embedding_provider' = NoProvider
    /\ ppc' = "done"
    /\ UNCHANGED <<provider_type, apiKey, OPENAI_AVAILABLE, SENTENCE_TRANSFORMERS_AVAILABLE, mainAfter>>
    /\ UNCHANGED notProvVars

\* indexing main, lines 103-110: without a provider it prints and returns,
\* otherwise it goes on to fetch.
MainCheckProvider ==
    /\ ppc = "done" /\ mainAfter = "pending"
    /\ mainAfter' = IF embedding_provider = NoProvider THEN "returned" ELSE "fetching"
    /\ UNCHANGED <<ppc, provider_type, apiKey, OPENAI_AVAILABLE, SENTENCE_TRANSFORMERS_AVAILABLE,
                   plog, embedding_provider>>
    /\ UNCHANGED notProvVars

ProvNext ==
    \/ ExplicitOpenAI
    \/ ExplicitLocal
    \/ UnknownType
    \/ AutoOpenAIConstruct
    \/ AutoOpenAIProbe
    \/ AutoLocal
    \/ MainCheckProvider

InitProv == ProvInit /\ NotProvIdle

SpecProv == InitProv /\ [][ProvNext]_vars

\* The candidate was constructed and, where it was probed, the probe
\* succeeded.
Tried(who) == \E i \in 1..Len(plog) : plog[i].who = who
ProbedAlive(who) == \E i \in 1..Len(plog) : plog[i] = Event("probe", who, TRUE)
FailedStep(who) == \E i \in 1..Len(plog) : plog[i].who = who /\ ~plog[i].ok

\* C14: get_embedding_provider("auto") tries OpenAI before local, returns a
\* provider only after a successful probe of that same provider, moves on
\* to the next candidate when construction or probe fails, and returns None
\* (it never raises) when no candidate succeeds.
C14_AutoProbesBeforeReturning ==
    (provider_type = "auto" /\ ppc = "done") =>
        /\ \A i, j \in 1..Len(plog) : (plog[i].who = "local" /\ plog[j].who = "openai") => j < i
        /\ embedding_provider.kind = "provider" => ProbedAlive(embedding_provider.name)
        /\ (FailedStep("openai") /\ SENTENCE_TRANSFORMERS_AVAILABLE) => Tried("local")
        /\ embedding_provider = NoProvider
             => \A who \in {"openai", "local"} : ~Tried(who) \/ FailedStep(who)

\* C15: an explicit request ("openai" or "local") returns exactly that
\* provider or fails with a ConfigurationError; it never returns another
\* provider and never returns an ordinary empty value.
C15_ExplicitReturnsThatProviderOrRaises ==
    (provider_type \in {"openai", "local"} /\ ppc = "done") =>
        \/ embedding_provider = Provider(provider_type)
        \/ embedding_provider.kind = "raise"

(***************************************************************************)
(* The user-facing session: app.main's menu loop and interactive_mode's    *)
(* question loop (app.py).  An operation in progress either returns one of *)
(* its outcomes or raises; what is raised is an Exception (EOFError from   *)
(* input included) or a KeyboardInterrupt.                                 *)
(***************************************************************************)
Raises == {"Exception", "KeyboardInterrupt"}

\* Operations inside the try block of main (app.py:151-185).
MainOps == {"indexing", "interactive_load", "stats", "test_load", "test_question",
            "test_embed", "test_retrieve", "test_generate"}

\* Operations inside the try block of interactive_mode (app.py:65-103).
InteractiveOps == {"embed_query", "retrieve", "generate"}

\* The strings the user can type at the menu; "x" is any other text.
MenuChoices == {"1", "2", "3", "4", "5", "x"}

NoError == [op |-> "none", exc |-> "none", back |-> "none", printed |-> "none"]
Goto(pc, msg, cause) == [pc |-> pc, msg |-> msg, cause |-> cause]

\* The except clauses of main (app.py:187-192).  The mutant lets an
\* Exception leave the loop.
MainExcept_Propagates(exc) ==
    IF exc = "KeyboardInterrupt" THEN Goto("ended", "goodbye", "interrupt")
    ELSE Goto("ended", "error", "error")

MainExcept(exc) ==
    IF exc = "KeyboardInterrupt" THEN Goto("ended", "goodbye", "interrupt")
    ELSE Goto("menu", "error", "none")

\* The except clauses of interactive_mode (app.py:105-110): an interrupt
\* leaves the question loop, and interactive_mode returns to main's loop.
InteractiveExcept(exc) ==
    IF exc = "KeyboardInterrupt" THEN Goto("menu", "goodbye", "none")
    ELSE Goto("question", "error", "none")

\* What input() can give: a line, or EOFError once standard input has
\* ended; a KeyboardInterrupt at any time.
InputResults(lines) == (IF stdinEOF THEN {"Exception"} ELSE lines \cup {"Exception"}) \cup {"KeyboardInterrupt"}

\* main, the branch taken for a menu line (app.py:153-185).
MenuBranch(choice) ==
    CASE choice = "1" -> Goto("indexing", "starting indexing", "none")
      [] choice = "2" -> Goto("interactive_load", "loading", "none")
      [] choice = "3" -> Goto("stats", message, "none")
      [] choice = "4" -> Goto("test_load", message, "none")
      [] choice = "5" -> Goto("ended", "thank you", "exit")
      [] OTHER -> Goto("menu", "invalid choice", "none")

\* The outcomes with which an operation of main's try block returns.
MainOutcomes(op) ==
    CASE op = "indexing" -> {"ok"}
      [] op = "interactive_load" -> {"loaded", "empty"}
      [] op = "stats" -> {"ok"}
      [] op = "test_load" -> {"loaded", "empty"}
      [] op = "test_question" -> {"text", "blank"}
      [] op = "test_embed" -> {"vector", "empty"}
      [] op = "test_retrieve" -> {"ok"}
      [] op = "test_generate" -> {"ok"}

\* Where main goes when the operation returns.
MainAfter(op, r) ==
    CASE op = "indexing" -> Goto("menu", "indexing completed", "none")
      [] op = "interactive_load" -> IF r = "loaded" THEN Goto("question", "interactive mode started", "none")
                                    ELSE Goto("menu", "no embeddings", "none")
      [] op = "stats" -> Goto("menu", "statistics", "none")
      [] op = "test_load" -> IF r = "loaded" THEN Goto("test_question", message, "none")
                             ELSE Goto("menu", "no embeddings", "none")
      [] op = "test_question" -> IF r = "text" THEN Goto("test_embed", "processing", "none")
                                 ELSE Goto("menu", message, "none")
      [] op = "test_embed" -> IF r = "vector" THEN Goto("test_retrieve", message, "none")
                              ELSE Goto("menu", message, "none")
      [] op = "test_retrieve" -> Goto("test_generate", message, "none")
      [] op = "test_generate" -> Goto("menu", "answer", "none")

InteractiveOutcomes(op) ==
    CASE op = "embed_query" -> {"vector", "empty"}
      [] op = "retrieve" -> {"chunks", "empty"}
      [] op = "generate" -> {"ok"}

\* Where interactive_mode goes when the operation returns (app.py:78-103).
InteractiveAfter(op, r) ==
    CASE op = "embed_query" -> IF r = "vector" THEN Goto("retrieve", "searching", "none")
                               ELSE Goto("question", "failed to process", "none")
      [] op = "retrieve" -> IF r = "chunks" THEN Goto("generate", "generating", "none")
                            ELSE Goto("question", "nothing relevant", "none")
      [] op = "generate" -> Goto("question", "answer", "none")

SessInit ==
    /\ spc = "start" /\ endCause = "none" /\ message = "none"
    /\ lastError = NoError /\ stdinEOF = FALSE /\ inputParity = 0

\* app.py:138-141: without the required environment variables main calls
\* sys.exit(1) before the first prompt.
CheckEnvironment ==
    /\ spc = "start"
    /\ \E ok \in BOOLEAN :
         /\ spc' = IF ok THEN "menu" ELSE "refused"
         /\ message' = IF ok THEN "environment configured" ELSE "missing variables"
    /\ UNCHANGED <<endCause, lastError, stdinEOF, inputParity>>
    /\ UNCHANGED notSessVars

\* Standard input ends (the terminal is closed, or the piped input runs out).
StdinEnds ==
    /\ spc \notin {"idle", "ended", "refused"} /\ ~stdinEOF
    /\ stdinEOF' = TRUE
    /\ UNCHANGED <<spc, endCause, message, lastError, inputParity>>
    /\ UNCHANGED notSessVars

\* One pass of main's loop up to the branch (app.py:143-153, 181-192).
MenuInput ==
    /\ spc = "menu"
    /\ \E r \in InputResults(MenuChoices) :
         LET to == IF r \in Raises THEN MainExcept(r) ELSE MenuBranch(r)
         IN  /\ spc' = to.pc /\ message' = to.msg /\ endCause' = to.cause
             /\ lastError' = IF r \in Raises
                             THEN [op |-> "menu", exc |-> r, back |-> to.pc, printed |-> to.msg]
                             ELSE lastError
    /\ inputParity' = 1 - inputParity
    /\ UNCHANGED stdinEOF
    /\ UNCHANGED notSessVars

\* An operation called from main's try block returns or raises: embed_main,
\* the load at the top of interactive_mode, show_stats, and the steps of
\* the single-question test (app.py:154-179).
RunMainOp ==
    /\ spc \in MainOps
    /\ \E r \in (IF spc = "test_question" THEN InputResults({"text", "blank"})
                 ELSE MainOutcomes(spc) \cup Raises) :
         LET to == IF r \in Raises THEN MainExcept(r) ELSE MainAfter(spc, r)
         IN  /\ spc' = to.pc /\ message' = to.msg /\ endCause' = to.cause
             /\ lastError' = IF r \in Raises
                             THEN [op |-> spc, exc |-> r, back |-> to.pc, printed |-> to.msg]
                             ELSE lastError
    /\ inputParity' = IF spc = "test_question" THEN 1 - inputParity ELSE inputParity
    /\ UNCHANGED stdinEOF
    /\ UNCHANGED notSessVars

\* interactive_mode's prompt (app.py:65-73).
QuestionInput ==
    /\ spc = "question"
    /\ \E r \in InputResults({"text", "blank", "quit"}) :
         LET to == IF r \in Raises THEN InteractiveExcept(r)
                   ELSE IF r = "quit" THEN Goto("menu", "goodbye", "none")
                   ELSE IF r = "blank" THEN Goto("question", message, "none")
                   ELSE Goto("embed_query", "searching", "none")
         IN  /\ spc' = to.pc /\ message' = to.msg /\ endCause' = to.cause
             /\ lastError' = IF r \in Raises
                             THEN [op |-> "question", exc |-> r, back |-> to.pc, printed |-> to.msg]
                             ELSE lastError
    /\ inputParity' = 1 - inputParity
    /\ UNCHANGED stdinEOF
    /\ UNCHANGED notSessVars

\* An operation of interactive_mode's try block returns or raises
\* (app.py:75-110).
RunInteractiveOp ==
    /\ spc \in InteractiveOps
    /\ \E r \in InteractiveOutcomes(spc) \cup Raises :
         LET to == IF r \in Raises THEN InteractiveExcept(r) ELSE InteractiveAfter(spc, r)
         IN  /\ spc' = to.pc /\ message' = to.msg /\ endCause' = to.cause
             /\ lastError' = IF r \in Raises
                             THEN [op |-> spc, exc |-> r, back |-> to.pc, printed |-> to.msg]
                             ELSE lastError
    /\ UNCHANGED <<stdinEOF, inputParity>>
    /\ UNCHANGED notSessVars

SessNext ==
    \/ CheckEnvironment
    \/ StdinEnds
    \/ MenuInput
    \/ RunMainOp
    \/ QuestionInput
    \/ RunInteractiveOp

InitSess == SessInit /\ NotSessIdle

SpecSess == InitSess /\ [][SessNext]_vars

\* The prompt from which an operation is chosen: the question prompt for
\* the steps of interactive_mode's loop, the menu for everything else.
PromptOf(op) == IF op \in InteractiveOps \cup {"question"} THEN "question" ELSE "menu"

\* C16: once the session has reached its first prompt, an error raised by
\* indexing, loading, query embedding, retrieval or answer generation (or by
\* any other step inside the try blocks) never ends it: the handler prints
\* an error message and the session is back at the prompt from which the
\* operation was chosen; the session ends only on the exit choice or on an
\* interrupt.
C16_ErrorsDoNotEndSession ==
    /\ spc = "ended" => endCause \in {"exit", "interrupt"}
    /\ lastError.exc = "Exception"
         => /\ lastError.printed = "error"
            /\ lastError.back = PromptOf(lastError.op)

\* An error of each kind of operation has been raised and the session is at
\* the prompt again.
C16_Witness ==
    /\ lastError.exc = "Exception"
    /\ lastError.op \in {"indexing", "interactive_load", "embed_query", "retrieve", "generate"}
    /\ spc = PromptOf(lastError.op) /\ message = "error"

\* Positions (0-based) of the terminators among the last `overlap`
\* characters of the window that ends at win.
TerminatorsInOverlap(win) ==
    {p \in Max2(0, win - overlap)..(win - 1) : text[p + 1] \in {Dot, Bang, Question}}

SetMax(S) == CHOOSE m \in S : \A x \in S : x <= m

\* C17: a window that does not reach the end of the text is cut right after
\* the right-most terminator among its last `overlap` characters (the first
\* of them included), and is kept whole when there is none.
C17_CutAfterLastTerminatorInOverlap ==
    \A i \in 1..Len(spans) :
        (spans[i].start >= 0 /\ spans[i].win < Len(text)) =>
            spans[i].cut = IF TerminatorsInOverlap(spans[i].win) # {}
                           THEN SetMax(TerminatorsInOverlap(spans[i].win)) + 1
                           ELSE spans[i].win

\* C20: with 0 <= overlap < max_length the window start strictly increases
\* from one iteration of chunk_text's loop to the next, so that the loop
\* reaches the end of the text.
C20_StartStrictlyIncreases ==
    (0 <= overlap /\ overlap < max_length) =>
        /\ \A i \in 1..(Len(spans) - 1) : spans[i + 1].start > spans[i].start
        /\ Len(spans) >= 1 /\ cpc = "loop" => start > spans[Len(spans)].start

(***************************************************************************)
(* Pagination with retries: fetch_blocks and fetch_database_pages          *)
(* (notion_fetcher/fetch.py).  The two functions have the same loop; they  *)
(* differ in the API method called and in the name of the list.            *)
(***************************************************************************)
MaxPages == 3

\* fetch.py:15 and :92
max_retries == 3

\* response['results'] of page p of the listing.
PageResults(p) == [i \in 1..(IF p % 2 = 1 THEN 2 ELSE 1) |-> [page |-> p, item |-> i]]

\* The page a call with start_cursor=cursor returns.
CursorPage(c) == IF c = 0 THEN 1 ELSE c

\* fetch.py:39 and :117, time.sleep(2 ** attempt).  The variant sleeps
\* 2 * attempt seconds.
Backoff_Linear(a) == 2 * a

Backoff(a) == 2 ^ a

Try(p, a, ok) == [ev |-> "try", page |-> p, attempt |-> a, ok |-> ok, seconds |-> 0]
Sleep(p, a, s) == [ev |-> "sleep", page |-> p, attempt |-> a, ok |-> FALSE, seconds |-> s]

FetchInit ==
    /\ fpc = "attempt"
    /\ fwhich \in {"fetch_blocks", "fetch_database_pages"}
    /\ totalPages \in 1..MaxPages
    /\ cursor = 0 /\ attempt = 0 /\ results = <<>> /\ flog = <<>>
    /\ freturn = [kind |-> "pending", value |-> <<>>] /\ gaveUp = FALSE

\* The try block runs through (fetch.py:19-31, 98-110): the page is
\* appended; the function returns when has_more is false, otherwise it
\* takes next_cursor and leaves the for loop, which starts again at 0.
FetchAttemptSucceeds ==
    /\ fpc = "attempt"
    /\ LET p == CursorPage(cursor)
       IN  /\ flog' = Append(flog, Try(p, attempt, TRUE))
           /\ results' = results \o PageResults(p)
           /\ IF p >= totalPages
              THEN /\ freturn' = Returned(results')
                   /\ fpc' = "returned"
                   /\ UNCHANGED <<cursor, attempt>>
              ELSE /\ cursor' = p + 1
                   /\ attempt' = 0
                   /\ UNCHANGED <<fpc, freturn>>
    /\ UNCHANGED <<fwhich, totalPages, gaveUp>>
    /\ UNCHANGED notFetchVars

\* The API call raises and it was not the last attempt (fetch.py:33-39,
\* 112-117): sleep, then the next attempt.
FetchAttemptFailsRetry ==
    /\ fpc = "attempt"
    /\ attempt # max_retries - 1
    /\ flog' = flog \o <<Try(CursorPage(cursor), attempt, FALSE),
                         Sleep(CursorPage(cursor), attempt, Backoff(attempt))>>
    /\ attempt' = attempt + 1
    /\ UNCHANGED <<fpc, fwhich, totalPages, cursor, results, freturn, gaveUp>>
    /\ UNCHANGED notFetchVars

\* The API call raises on the last attempt (fetch.py:34-36, 113-115).
FetchAttemptFailsGiveUp ==
    /\ fpc = "attempt"
    /\ attempt = max_retries - 1
    /\ flog' = Append(flog, Try(CursorPage(cursor), attempt, FALSE))
    /\ freturn' = Returned(results)
    /\ gaveUp' = TRUE
    /\ fpc' = "returned"
    /\ UNCHANGED <<fwhich, totalPages, cursor, attempt, results>>
    /\ UNCHANGED notFetchVars

FetchNext ==
    \/ FetchAttemptSucceeds
    \/ FetchAttemptFailsRetry
    \/ FetchAttemptFailsGiveUp

InitFetch == FetchInit /\ NotFetchIdle

SpecFetch == InitFetch /\ [][FetchNext]_vars

\* The results of pages 1..p, each once, in order.
RECURSIVE FirstPages(_)
FirstPages(p) == IF p <= 0 THEN <<>> ELSE FirstPages(p - 1) \o PageResults(p)

TriesOf(p) == {i \in 1..Len(flog) : flog[i].ev = "try" /\ flog[i].page = p}

\* C18: every page is attempted at most 3 times, the attempt counter
\* starts at 0 for every page, two attempts on a page are separated by a
\* sleep of 2^attempt seconds, and when the third attempt on a page fails
\* the function returns (it does not raise) the results of the pages
\* fetched before it, each once.
C18_BoundedRetriesPerPage ==
    /\ \A p \in 1..MaxPages : Cardinality(TriesOf(p)) <= 3
    /\ \A i \in 1..Len(flog) :
         flog[i].ev = "try" =>
            IF i = 1 THEN flog[i].attempt = 0 /\ flog[i].page = 1
            ELSE IF flog[i - 1].ev = "try"
            THEN /\ flog[i - 1].ok
                 /\ flog[i].page = flog[i - 1].page + 1
                 /\ flog[i].attempt = 0
            ELSE /\ flog[i - 2] = Try(flog[i].page, flog[i].attempt - 1, FALSE)
                 /\ flog[i - 1] = Sleep(flog[i].page, flog[i].attempt - 1, 2 ^ (flog[i].attempt - 1))
    /\ \A i \in 1..Len(flog) :
         (flog[i].ev = "sleep") => (i > 1 /\ flog[i - 1].ev = "try" /\ ~flog[i - 1].ok)
    /\ (fpc = "returned" /\ gaveUp) =>
            /\ Cardinality(TriesOf(CursorPage(cursor))) = 3
            /\ freturn = Returned(FirstPages(CursorPage(cursor) - 1))
    /\ (fpc = "returned" /\ ~gaveUp) => freturn = Returned(FirstPages(totalPages))

\* The first page needed a retry, and the second page failed three times:
\* the function has returned the first page's results.
C18_Witness ==
    /\ fpc = "returned" /\ gaveUp
    /\ CursorPage(cursor) = 2
    /\ Cardinality(TriesOf(1)) = 2
    /\ Cardinality(TriesOf(2)) = 3
    /\ freturn = Returned(PageResults(1))
    /\ \E i \in 1..Len(flog) : flog[i] = Sleep(2, 1, 2)

\* C19: between two successive calls the OpenAI embedding provider makes
\* to the embedding service at least the fixed delay elapses, whether the
\* earlier call succeeded or failed and whether the calls come from
\* embed_text or from embed_batch.
C19_MinimumDelayBetweenCalls ==
    \A i \in 1..(Len(callTimes) - 1) : callTimes[i + 1] - callTimes[i] >= RateDelayMs

\* The session under the scheduling of the interpreter: a step of the
\* program that can be taken is eventually taken.  What input() yields and
\* whether the user interrupts remain choices of the environment.
FairSess ==
    /\ WF_vars(CheckEnvironment)
    /\ WF_vars(MenuInput)
    /\ WF_vars(RunMainOp)
    /\ WF_vars(QuestionInput)
    /\ WF_vars(RunInteractiveOp)

SpecSessFair == InitSess /\ [][SessNext]_vars /\ FairSess

\* C21: once standard input has ended, a session waiting at the main menu
\* eventually leaves the menu loop: the failed read of the menu choice ends
\* the session instead of being caught and followed by another prompt.
C21_MenuLoopEndsAtEOF == (spc = "menu" /\ stdinEOF) ~> (spc = "ended")

====
